---- MODULE Spec2Model ----
(***************************************************************************)
(* Model of the wildmidi Rust binding (src/src/lib.rs): the Player value   *)
(* that wraps the engine's global initialize/shutdown pair, and the Midi   *)
(* value that wraps one engine track handle.  The engine itself is an      *)
(* external C library; it is modelled by what the binding's declarations   *)
(* and documentation say about it, and by a nondeterministic choice where  *)
(* they say nothing: the status of an initialize while the engine is       *)
(* already initialized, a failure status of the output and seek calls, and *)
(* every result of a call on a handle the engine no longer holds.          *)
(* The filesystem is outside the program: each call that tests a path      *)
(* takes the set of files existing at that moment as an input.             *)
(***************************************************************************)
EXTENDS Integers, Sequences, FiniteSets, TLC

\* ---- bounds of the model ------------------------------------------------
MaxPlayers == 2
MaxMidis == 1
MaxTotal == 1
MaxLen == 2

\* ---- program constants --------------------------------------------------
MinRate == 11025
MaxRate == 65535
CUshortModulus == 65536
MaxVolume == 127

\* usize is wider than c_int; the model keeps the one fact the code depends
\* on: a negative c_int converts to a value above every request length.
UsizeModulus == 2^30

Null == 0
None == "<none>"

\* ---- inputs -------------------------------------------------------------
Rates == {MinRate - 1, MinRate, MaxRate}
NulPath == "<interior NUL>"
CfgArgs == {"custom.cfg", NulPath}
FileArgs == {"song.mid"}
CfgFiles == {"/etc/wildmidi/wildmidi.cfg", "/etc/wildmidi.cfg"}
Volumes == {0, MaxVolume, MaxVolume + 1}
SeekPositions == {0, 1, CUshortModulus}
MidiData == {[ok |-> FALSE, total |-> 0]} \cup [ok : {TRUE}, total : 0..MaxTotal]

VARIABLES
    players,      \* the live Player values (identified by a serial number)
    nextPlayer,   \* serial number of the next Player
    initialized,  \* engine: between a successful WildMidi_Init and WildMidi_Shutdown
    handles,      \* engine: open track handle -> [cur, total], the cursor and length
    midis,        \* the live Midi values: ptr -> [owner, short]; short records a
                  \* play that returned fewer bytes than requested since the last seek
    nextMidi,     \* the next handle the engine hands out
    nInitOk,      \* number of WildMidi_Init calls that returned 0
    nShutdown,    \* number of WildMidi_Shutdown calls
    closed,       \* the handles WildMidi_Close has been called on
    released,     \* the handles whose source buffer the caller has released or changed
    last,         \* the latest call: its arguments, result and engine call
    pc,           \* the example player: the position of main
    sunk          \* the example player: length of the block last played on the device

vars == <<players, nextPlayer, initialized, handles, midis, nextMidi,
          nInitOk, nShutdown, closed, released, last, pc, sunk>>

\* the state of the example player's main, which the library never touches
mainVars == <<pc, sunk>>

Min(a, b) == IF a < b THEN a ELSE b

\* ---- the record of the latest call ---------------------------------------
\* op: the method; who: the Player or Midi it produced or acted on (0: none);
\* files: the existing files it saw; path, num: its arguments; res: Ok or Err;
\* out: the length or number returned; pre: before the call, the cursor (seek)
\* or 1 when samples remained (play); flag: the track's short before the call;
\* sound: the handle was open in an initialized engine; call: the extern call
\* made; after: whether the call directly follows a seek(0) on the same open
\* track, whether that seek started at end-of-stream, and the cursor before it.
NoCall == [fn |-> "none", arg |-> 0, ret |-> 0]

Call(fn, arg, ret) == [fn |-> fn, arg |-> arg, ret |-> ret]

Last(op, who, files, path, num, res, out, pre, flag, sound, call) ==
    [op |-> op, who |-> who, files |-> files, path |-> path, num |-> num, res |-> res,
     out |-> out, pre |-> pre, flag |-> flag, sound |-> sound, call |-> call,
     after |-> IF op \in {"play", "current_sample"} /\ last.op = "seek" /\ last.who = who
                  /\ last.num = 0 /\ last.sound
               THEN [seek0 |-> TRUE,
                     eos |-> IF op = "play" THEN last.flag ELSE FALSE,
                     pre |-> IF op = "current_sample" THEN last.pre ELSE 0]
               ELSE [seek0 |-> FALSE, eos |-> FALSE, pre |-> 0]]

\* ---- conversions ----------------------------------------------------------
HasNul(s) == s = NulPath

AsUsize(r) == IF r < 0 THEN UsizeModulus + r ELSE r

\* a conversion that is off by one
AsCUshort_OffByOne(pos) == (pos + 1) % CUshortModulus

AsCUshort(pos) == pos % CUshortModulus

\* ---- the engine -----------------------------------------------------------
Sound(m) == initialized /\ m \in DOMAIN handles /\ m \notin released

InitReturns(files, cfg, rate) ==
    IF rate < MinRate \/ rate > MaxRate THEN {-1}
    ELSE IF initialized THEN {0, -1}
    ELSE IF cfg \in files THEN {0} ELSE {-1}

OpenReturns(data) ==
    IF initialized /\ data.ok THEN {nextMidi} ELSE {Null}

GetOutputReturns(m, len) ==
    IF Sound(m)
    THEN {Min(len, handles[m].total - handles[m].cur), -1}
    ELSE {-1, 0, len + 1}

FastSeekReturns(m) == {0, -1}

GetInfoCurrentSample(m) ==
    IF Sound(m) THEN {handles[m].cur} ELSE 0..MaxTotal

GetInfoTotalSamples(m) ==
    IF Sound(m) THEN {handles[m].total} ELSE {0, MaxTotal}

\* the track's event time is a fixed attribute of the track, like its length;
\* the model measures both in the same unit
GetInfoTotalTime(m) ==
    IF Sound(m) THEN {handles[m].total} ELSE {0, MaxTotal}

\* the copyright pointer: 0 null, 1 valid text, 2 bytes that are not valid text
GetInfoCopyright(m) == 0..2

\* the engine accepts a level of 0..MaxVolume while it is initialized; the
\* declarations say nothing about the other cases
MasterVolumeReturns(v) ==
    IF initialized /\ v <= MaxVolume THEN {0} ELSE {0, -1}

WildMidi_Shutdown ==
    /\ initialized' = FALSE
    /\ handles' = <<>>
    /\ nShutdown' = nShutdown + 1

WildMidi_Close(m) ==
    /\ handles' = [h \in (DOMAIN handles) \ {m} |-> handles[h]]
    /\ closed' = closed \cup {m}

Midi_new(p) == [owner |-> p, short |-> FALSE]

\* ---- Player ---------------------------------------------------------------
RECURSIVE FirstExisting(_, _)
FirstExisting(files, paths) ==
    IF paths = <<>> THEN None
    ELSE IF Head(paths) \in files THEN Head(paths)
    ELSE FirstExisting(files, Tail(paths))

\* the candidates tried in the opposite order
locate_cfg_Reversed(files) ==
    FirstExisting(files, <<"/etc/wildmidi.cfg", "/etc/wildmidi/wildmidi.cfg">>)

locate_cfg(files) ==
    FirstExisting(files, <<"/etc/wildmidi/wildmidi.cfg", "/etc/wildmidi.cfg">>)

\* with_cfg without the test of the initializer's status
with_cfg_IgnoreStatus(files, cfg, rate, ret) ==
    /\ nextPlayer <= MaxPlayers
    /\ IF HasNul(cfg)
       THEN /\ last' = Last("with_cfg", 0, files, cfg, rate, "Err", 0, 0, FALSE, FALSE, NoCall)
            /\ UNCHANGED <<players, nextPlayer, initialized, nInitOk>>
       ELSE /\ ret \in InitReturns(files, cfg, rate)
            /\ initialized' = (initialized \/ ret = 0)
            /\ nInitOk' = IF ret = 0 THEN nInitOk + 1 ELSE nInitOk
            /\ players' = players \cup {nextPlayer}
            /\ nextPlayer' = nextPlayer + 1
            /\ last' = Last("with_cfg", nextPlayer, files, cfg, rate, "Ok", 0, 0, FALSE, FALSE,
                            Call("WildMidi_Init", rate, ret))
    /\ UNCHANGED <<handles, midis, nextMidi, nShutdown, closed, released>>

with_cfg(files, cfg, rate, ret) ==
    /\ nextPlayer <= MaxPlayers
    /\ IF HasNul(cfg)
       THEN /\ last' = Last("with_cfg", 0, files, cfg, rate, "Err", 0, 0, FALSE, FALSE, NoCall)
            /\ UNCHANGED <<players, nextPlayer, initialized, nInitOk>>
       ELSE /\ ret \in InitReturns(files, cfg, rate)
            /\ initialized' = (initialized \/ ret = 0)
            /\ nInitOk' = IF ret = 0 THEN nInitOk + 1 ELSE nInitOk
            /\ IF ret # 0
               THEN /\ last' = Last("with_cfg", 0, files, cfg, rate, "Err", 0, 0, FALSE, FALSE,
                                    Call("WildMidi_Init", rate, ret))
                    /\ UNCHANGED <<players, nextPlayer>>
               ELSE /\ players' = players \cup {nextPlayer}
                    /\ nextPlayer' = nextPlayer + 1
                    /\ last' = Last("with_cfg", nextPlayer, files, cfg, rate, "Ok", 0, 0, FALSE, FALSE,
                                    Call("WildMidi_Init", rate, ret))
    /\ UNCHANGED <<handles, midis, nextMidi, nShutdown, closed, released>>

new(files, rate, ret) ==
    IF locate_cfg(files) = None
    THEN /\ nextPlayer <= MaxPlayers
         /\ last' = Last("new", 0, files, None, rate, "Err", 0, 0, FALSE, FALSE, NoCall)
         /\ UNCHANGED <<players, nextPlayer, initialized, handles, midis,
                        nextMidi, nInitOk, nShutdown, closed, released>>
    ELSE with_cfg(files, locate_cfg(files), rate, ret)

volume(p, v, ret) ==
    /\ p \in players
    /\ ret \in MasterVolumeReturns(v)
    /\ last' = Last("volume", p, {}, None, v, IF ret # 0 THEN "Err" ELSE "Ok", 0, 0,
                    FALSE, initialized, Call("WildMidi_MasterVolume", v, ret))
    /\ UNCHANGED <<players, nextPlayer, initialized, handles, midis, nextMidi,
                   nInitOk, nShutdown, closed, released>>

\* load without the test for a null handle
load_NoNullCheck(p, data, ptr) ==
    /\ p \in players
    /\ nextMidi <= MaxMidis
    /\ ptr \in OpenReturns(data)
    /\ midis' = ptr :> Midi_new(p) @@ midis
    /\ handles' = IF ptr # Null
                  THEN ptr :> [cur |-> 0, total |-> data.total] @@ handles
                  ELSE handles
    /\ nextMidi' = IF ptr # Null THEN nextMidi + 1 ELSE nextMidi
    /\ last' = Last("load", ptr, {}, None, p, "Ok", 0, 0, FALSE, initialized,
                    Call("WildMidi_OpenBuffer", 0, ptr))
    /\ UNCHANGED <<players, nextPlayer, initialized, nInitOk, nShutdown, closed, released>>

load(p, data, ptr) ==
    /\ p \in players
    /\ nextMidi <= MaxMidis
    /\ ptr \in OpenReturns(data)
    /\ IF ptr # Null
       THEN /\ midis' = ptr :> Midi_new(p) @@ midis
            /\ handles' = ptr :> [cur |-> 0, total |-> data.total] @@ handles
            /\ nextMidi' = nextMidi + 1
            /\ last' = Last("load", ptr, {}, None, p, "Ok", 0, 0, FALSE, initialized,
                            Call("WildMidi_OpenBuffer", 0, ptr))
       ELSE /\ last' = Last("load", 0, {}, None, p, "Err", 0, 0, FALSE, initialized,
                            Call("WildMidi_OpenBuffer", 0, ptr))
            /\ UNCHANGED <<midis, handles, nextMidi>>
    /\ UNCHANGED <<players, nextPlayer, initialized, nInitOk, nShutdown, closed, released>>

\* load_file without the existence test
load_file_NoExistsCheck(files, p, path, data, ptr) ==
    /\ p \in players
    /\ nextMidi <= MaxMidis
    /\ ptr \in OpenReturns(data)
    /\ IF ptr # Null
       THEN /\ midis' = ptr :> Midi_new(p) @@ midis
            /\ handles' = ptr :> [cur |-> 0, total |-> data.total] @@ handles
            /\ nextMidi' = nextMidi + 1
            /\ last' = Last("load_file", ptr, files, path, p, "Ok", 0, 0, FALSE, initialized,
                            Call("WildMidi_Open", 0, ptr))
       ELSE /\ last' = Last("load_file", 0, files, path, p, "Err", 0, 0, FALSE, initialized,
                            Call("WildMidi_Open", 0, ptr))
            /\ UNCHANGED <<midis, handles, nextMidi>>
    /\ UNCHANGED <<players, nextPlayer, initialized, nInitOk, nShutdown, closed, released>>

load_file(files, p, path, data, ptr) ==
    /\ p \in players
    /\ nextMidi <= MaxMidis
    /\ IF path \notin files
       THEN /\ last' = Last("load_file", 0, files, path, p, "Err", 0, 0, FALSE, initialized, NoCall)
            /\ UNCHANGED <<midis, handles, nextMidi>>
       ELSE /\ ptr \in OpenReturns(data)
            /\ IF ptr # Null
               THEN /\ midis' = ptr :> Midi_new(p) @@ midis
                    /\ handles' = ptr :> [cur |-> 0, total |-> data.total] @@ handles
                    /\ nextMidi' = nextMidi + 1
                    /\ last' = Last("load_file", ptr, files, path, p, "Ok", 0, 0, FALSE, initialized,
                                    Call("WildMidi_Open", 0, ptr))
               ELSE /\ last' = Last("load_file", 0, files, path, p, "Err", 0, 0, FALSE, initialized,
                                    Call("WildMidi_Open", 0, ptr))
                    /\ UNCHANGED <<midis, handles, nextMidi>>
    /\ UNCHANGED <<players, nextPlayer, initialized, nInitOk, nShutdown, closed, released>>

\* a drop that forgets the engine shutdown
drop_Player_NoShutdown(p) ==
    /\ p \in players
    /\ players' = players \ {p}
    /\ last' = Last("drop_Player", p, {}, None, 0, "Ok", 0, 0, FALSE, FALSE, NoCall)
    /\ UNCHANGED <<nextPlayer, initialized, handles, midis, nextMidi, nInitOk, nShutdown,
                   closed, released>>

drop_Player(p) ==
    /\ p \in players
    /\ WildMidi_Shutdown
    /\ players' = players \ {p}
    /\ last' = Last("drop_Player", p, {}, None, 0, "Ok", 0, 0, FALSE, FALSE,
                    Call("WildMidi_Shutdown", 0, 0))
    /\ UNCHANGED <<nextPlayer, midis, nextMidi, nInitOk, closed, released>>

\* ---- Midi -----------------------------------------------------------------
\* a trim to the reported length without the comparison
PlayLen_Unbounded(read, len) == read

PlayLen(read, len) == IF read < len THEN read ELSE len

play(m, len, ret) ==
    /\ m \in DOMAIN midis
    /\ ret \in GetOutputReturns(m, len)
    /\ handles' = IF Sound(m) /\ ret >= 0
                  THEN [handles EXCEPT ![m].cur = @ + ret]
                  ELSE handles
    /\ LET n == PlayLen(AsUsize(ret), len)
       IN /\ midis' = [midis EXCEPT ![m].short = @ \/ n < len]
          /\ last' = Last("play", m, {}, None, len, "Ok", n,
                          IF Sound(m) /\ handles[m].cur < handles[m].total THEN 1 ELSE 0,
                          midis[m].short, Sound(m),
                          Call("WildMidi_GetOutput", len, ret))
    /\ UNCHANGED <<players, nextPlayer, initialized, nextMidi, nInitOk, nShutdown, closed, released>>

seek(m, pos, ret) ==
    /\ m \in DOMAIN midis
    /\ ret \in FastSeekReturns(m)
    /\ handles' = IF Sound(m) /\ ret = 0
                  THEN [handles EXCEPT ![m].cur = Min(AsCUshort(pos), handles[m].total)]
                  ELSE handles
    /\ midis' = [midis EXCEPT ![m].short = FALSE]
    /\ last' = Last("seek", m, {}, None, pos, "Ok", 0,
                    IF Sound(m) THEN handles[m].cur ELSE 0,
                    midis[m].short, Sound(m),
                    Call("WildMidi_FastSeek", AsCUshort(pos), ret))
    /\ UNCHANGED <<players, nextPlayer, initialized, nextMidi, nInitOk, nShutdown, closed, released>>

\* a position cached when the track was opened
current_sample_Cached(m, v) ==
    /\ m \in DOMAIN midis
    /\ v \in GetInfoCurrentSample(m)
    /\ last' = Last("current_sample", m, {}, None, 0, "Ok", 0, 0, midis[m].short, Sound(m),
                    Call("WildMidi_GetInfo", m, v))
    /\ UNCHANGED <<players, nextPlayer, initialized, handles, midis, nextMidi,
                   nInitOk, nShutdown, closed, released>>

current_sample(m, v) ==
    /\ m \in DOMAIN midis
    /\ v \in GetInfoCurrentSample(m)
    /\ last' = Last("current_sample", m, {}, None, 0, "Ok", v, 0, midis[m].short, Sound(m),
                    Call("WildMidi_GetInfo", m, v))
    /\ UNCHANGED <<players, nextPlayer, initialized, handles, midis, nextMidi,
                   nInitOk, nShutdown, closed, released>>

Query(op, m, res, v) ==
    /\ m \in DOMAIN midis
    /\ last' = Last(op, m, {}, None, 0, res, v, 0, midis[m].short, Sound(m),
                    Call("WildMidi_GetInfo", m, v))
    /\ UNCHANGED <<players, nextPlayer, initialized, handles, midis, nextMidi,
                   nInitOk, nShutdown, closed, released>>

copyright(m, c) ==
    /\ c \in GetInfoCopyright(m)
    /\ Query("copyright", m, IF c = 1 THEN "Some" ELSE "None", c)

total_samples(m, v) ==
    /\ v \in GetInfoTotalSamples(m)
    /\ Query("total_samples", m, "Ok", v)

total_time(m, v) ==
    /\ v \in GetInfoTotalTime(m)
    /\ Query("total_time", m, "Ok", v)

drop_Midi(m) ==
    /\ m \in DOMAIN midis
    /\ WildMidi_Close(m)
    /\ midis' = [h \in (DOMAIN midis) \ {m} |-> midis[h]]
    /\ last' = Last("drop_Midi", m, {}, None, 0, "Ok", 0, 0, midis[m].short, Sound(m),
                    Call("WildMidi_Close", m, 0))
    /\ UNCHANGED <<players, nextPlayer, initialized, nextMidi, nInitOk, nShutdown, released>>

\* ---- the caller's source buffer ------------------------------------------
\* load borrows data only for the call and the Midi it returns carries no
\* lifetime, so the caller is free to drop or overwrite the buffer as soon as
\* load has returned.
release_buffer(m) ==
    /\ m \in DOMAIN midis
    /\ last.op = "load" /\ last.res = "Ok" /\ last.who = m
    /\ released' = released \cup {m}
    /\ last' = Last("release_buffer", m, {}, None, 0, "Ok", 0, 0, midis[m].short, Sound(m), NoCall)
    /\ UNCHANGED <<players, nextPlayer, initialized, handles, midis, nextMidi,
                   nInitOk, nShutdown, closed>>

Init ==
    /\ players = {}
    /\ nextPlayer = 1
    /\ initialized = FALSE
    /\ handles = <<>>
    /\ midis = <<>>
    /\ nextMidi = 1
    /\ nInitOk = 0
    /\ nShutdown = 0
    /\ closed = {}
    /\ released = {}
    /\ last = Last("init", 0, {}, None, 0, "Ok", 0, 0, FALSE, FALSE, NoCall)
    /\ pc = "args"
    /\ sunk = 0

Next ==
    \/ \E cfg \in CfgArgs, rate \in Rates, ret \in {0, -1} :
          \E files \in SUBSET ({cfg} \ {NulPath}) : with_cfg(files, cfg, rate, ret) /\ UNCHANGED mainVars
    \/ \E files \in SUBSET CfgFiles, rate \in Rates, ret \in {0, -1} : new(files, rate, ret) /\ UNCHANGED mainVars
    \/ \E p \in players : drop_Player(p) /\ UNCHANGED mainVars
    \/ \E p \in players, data \in MidiData :
          \E ptr \in OpenReturns(data) : load(p, data, ptr) /\ UNCHANGED mainVars
    \/ \E files \in SUBSET FileArgs, p \in players, path \in FileArgs, data \in MidiData :
          \E ptr \in OpenReturns(data) : load_file(files, p, path, data, ptr) /\ UNCHANGED mainVars
    \/ \E m \in DOMAIN midis, len \in 0..MaxLen :
          \E ret \in GetOutputReturns(m, len) : play(m, len, ret) /\ UNCHANGED mainVars
    \/ \E m \in DOMAIN midis, pos \in SeekPositions, ret \in {0, -1} : seek(m, pos, ret) /\ UNCHANGED mainVars
    \/ \E m \in DOMAIN midis : \E v \in GetInfoCurrentSample(m) : current_sample(m, v) /\ UNCHANGED mainVars
    \/ \E m \in DOMAIN midis : \E c \in GetInfoCopyright(m) : copyright(m, c) /\ UNCHANGED mainVars
    \/ \E m \in DOMAIN midis : \E v \in GetInfoTotalSamples(m) : total_samples(m, v) /\ UNCHANGED mainVars
    \/ \E m \in DOMAIN midis : \E v \in GetInfoTotalTime(m) : total_time(m, v) /\ UNCHANGED mainVars
    \/ \E m \in DOMAIN midis : drop_Midi(m) /\ UNCHANGED mainVars

Spec == Init /\ [][Next]_vars

\* the library's calls together with the caller's handling of its buffers
NextBuffers ==
    \/ Next
    \/ \E m \in DOMAIN midis : release_buffer(m) /\ UNCHANGED mainVars

SpecBuffers == Init /\ [][NextBuffers]_vars

\* the library's calls together with the master volume control
NextVolume ==
    \/ Next
    \/ \E p \in players, v \in Volumes : \E ret \in MasterVolumeReturns(v) : volume(p, v, ret) /\ UNCHANGED mainVars

SpecVolume == Init /\ [][NextVolume]_vars

\* ---- the example player ---------------------------------------------------
ChunkSize == 4096
MainRate == 44100

\* the tracks the example player may be given: unreadable, empty, shorter
\* than a block by much or by one byte, a whole number of blocks, and a block
\* and a byte
MainData ==
    {[ok |-> FALSE, total |-> 0]}
       \cup [ok : {TRUE}, total : {0, 1, ChunkSize - 1, ChunkSize, ChunkSize + 1, 2 * ChunkSize}]

Terminated == {"done", "exited", "panicked"}

\* the argument count and the existence of the file are checked first
main_args(ok) ==
    /\ pc = "args"
    /\ pc' = IF ok THEN "new" ELSE "exited"
    /\ UNCHANGED <<players, nextPlayer, initialized, handles, midis, nextMidi,
                   nInitOk, nShutdown, closed, released, last, sunk>>

\* Player::new(44100).unwrap(): a failure panics with nothing to unwind
main_new(files, ret) ==
    /\ pc = "new"
    /\ new(files, MainRate, ret)
    /\ pc' = IF last'.res = "Ok" THEN "load" ELSE "panicked"
    /\ UNCHANGED sunk

\* player.load_file(&path).unwrap(): a failure panics and unwinds the Player
main_load(files, path, data, ptr) ==
    /\ pc = "load"
    /\ \E p \in players : load_file(files, p, path, data, ptr)
    /\ pc' = IF last'.res = "Ok" THEN "device" ELSE "unwind_player"
    /\ UNCHANGED sunk

\* the audio device is opened; a failure panics and unwinds Midi, then Player
main_device(ok) ==
    /\ pc = "device"
    /\ pc' = IF ok THEN "loop" ELSE "unwind_midi"
    /\ UNCHANGED <<players, nextPlayer, initialized, handles, midis, nextMidi,
                   nInitOk, nShutdown, closed, released, last, sunk>>

\* let vec = midi.play(4096)
main_play(m, ret) ==
    /\ pc = "loop"
    /\ play(m, ChunkSize, ret)
    /\ pc' = "check"
    /\ UNCHANGED sunk

\* if pcm.len() <= 0 { break; }
main_break ==
    /\ pc = "check"
    /\ last.out <= 0
    /\ pc' = "exit_midi"
    /\ UNCHANGED <<players, nextPlayer, initialized, handles, midis, nextMidi,
                   nInitOk, nShutdown, closed, released, last, sunk>>

\* device.play(&pcm[..])
main_forward ==
    /\ pc = "check"
    /\ ~(last.out <= 0)
    /\ sunk' = last.out
    /\ pc' = "loop"
    /\ UNCHANGED <<players, nextPlayer, initialized, handles, midis, nextMidi,
                   nInitOk, nShutdown, closed, released, last>>

\* the locals are dropped in the reverse order of their declaration, at the
\* end of main and when a panic unwinds
main_drop_midi(m) ==
    /\ pc \in {"exit_midi", "unwind_midi"}
    /\ drop_Midi(m)
    /\ pc' = IF pc = "exit_midi" THEN "exit_player" ELSE "unwind_player"
    /\ UNCHANGED sunk

main_drop_player(p) ==
    /\ pc \in {"exit_player", "unwind_player"}
    /\ drop_Player(p)
    /\ pc' = IF pc = "exit_player" THEN "done" ELSE "panicked"
    /\ UNCHANGED sunk

NextMain ==
    \/ \E ok \in BOOLEAN : main_args(ok)
    \/ \E files \in SUBSET CfgFiles, ret \in {0, -1} : main_new(files, ret)
    \/ \E files \in SUBSET FileArgs, path \in FileArgs, data \in MainData :
          \E ptr \in OpenReturns(data) : main_load(files, path, data, ptr)
    \/ \E ok \in BOOLEAN : main_device(ok)
    \/ \E m \in DOMAIN midis : \E ret \in GetOutputReturns(m, ChunkSize) : main_play(m, ret)
    \/ main_break
    \/ main_forward
    \/ \E m \in DOMAIN midis : main_drop_midi(m)
    \/ \E p \in players : main_drop_player(p)

\* main is a single thread that runs until it returns, exits or panics
SpecMain == Init /\ [][NextMain]_vars /\ WF_vars(NextMain)

\* ---- properties -----------------------------------------------------------
RateInRange(r) == MinRate <= r /\ r <= MaxRate

\* C1: at most one Player is live at any time.
C1_AtMostOneLivePlayer == Cardinality(players) <= 1

\* C2: the engine shutdown of a Player happens only after every Midi opened
\* through it has been closed: every live Midi's owning Player is still live.
C2_TracksClosedBeforeShutdown ==
    \A m \in DOMAIN midis : midis[m].owner \in players

\* C3: a with_cfg or new call with a rate outside [MinRate, MaxRate] returns
\* an error, produces no Player and leaves the engine as it was: no
\* initialize succeeded and no shutdown is owed.
C3_InvalidRateRejected ==
    [][(last'.op \in {"with_cfg", "new"} /\ ~RateInRange(last'.num))
          => /\ last'.res = "Err"
             /\ players' = players
             /\ initialized' = initialized
             /\ nInitOk' = nInitOk
             /\ nShutdown' = nShutdown]_vars

C3_Witness ==
    /\ last.op = "with_cfg"
    /\ last.num = MinRate - 1
    /\ last.res = "Err"
    /\ last.call.fn = "WildMidi_Init"

\* C4: the engine initializer is never invoked with a rate outside
\* [MinRate, MaxRate].
C4_RateCheckedBeforeEngine ==
    last.call.fn = "WildMidi_Init" => RateInRange(last.call.arg)

\* C5: shutdowns and successful initializes balance: every successful
\* initialize is matched by a live Player or by exactly one shutdown, so
\* the shutdowns never exceed the successful initializes.
C5_ShutdownOncePerInit ==
    /\ nShutdown + Cardinality(players) = nInitOk
    /\ nShutdown <= nInitOk
    /\ (last.op \in {"with_cfg", "new"} /\ last.res = "Err")
          => last.call.fn # "WildMidi_Shutdown"

C5_Witness ==
    /\ last.op = "drop_Player"
    /\ nShutdown = 2
    /\ nInitOk = 2
    /\ players = {}

\* C6: play(n) returns at most n bytes, whatever the engine returned.
C6_PlayLenAtMostRequested ==
    last.op = "play" => last.out <= last.num

C6_Witness ==
    /\ last.op = "play"
    /\ last.sound
    /\ last.call.ret < 0
    /\ last.num > 0
    /\ last.out = last.num

\* C7: once a play on an open track has returned fewer bytes than requested,
\* every later play (with no seek in between) returns no bytes.
C7_EndOfStreamStable ==
    (last.op = "play" /\ last.sound /\ last.flag) => last.out = 0

\* C8: the position handed to the engine's seek call is the position given
\* to seek.
C8_SeekPositionExact ==
    last.call.fn = "WildMidi_FastSeek" => last.call.arg = last.num

\* C9: on an open track, current_sample right after seek(0) is at most its
\* value before the seek, and a play of n > 0 bytes returns bytes whenever
\* samples remain, also after a seek(0) from end-of-stream.
C9_SeekZeroResets ==
    /\ (last.op = "current_sample" /\ last.sound /\ last.after.seek0)
          => last.out <= last.after.pre
    /\ (last.op = "play" /\ last.sound /\ last.num > 0 /\ last.pre > 0)
          => last.out > 0

C9_Witness ==
    /\ last.op = "play"
    /\ last.sound
    /\ last.after.seek0
    /\ last.after.eos
    /\ last.call.ret > 0
    /\ last.out > 0

\* C10: load_file on a path that does not exist returns an error, invokes
\* no engine call and produces no Midi.
C10_MissingFileNoEngineCall ==
    [][(last'.op = "load_file" /\ last'.path \notin last'.files)
          => /\ last'.res = "Err"
             /\ last'.call.fn = "none"
             /\ midis' = midis
             /\ handles' = handles
             /\ nextMidi' = nextMidi]_vars

C10_Witness ==
    /\ last.op = "load_file"
    /\ last.path \notin last.files
    /\ last.res = "Err"
    /\ players # {}

TrackOps == {"play", "seek", "copyright", "current_sample", "total_samples",
             "total_time", "drop_Midi"}

\* C11: every live Midi holds a non-null handle that has not been closed;
\* load and load_file return a Midi exactly when the engine returned a
\* non-null handle; every play, seek, query and close is issued on a handle
\* not closed before, and the close of a drop ends the Midi.
C11_HandleNonNullClosedOnce ==
    /\ [](\A m \in DOMAIN midis : m # Null /\ m \notin closed)
    /\ []((last.op \in {"load", "load_file"} /\ last.call.fn # "none")
             => /\ (last.res = "Ok") <=> (last.call.ret # Null)
                /\ last.res = "Ok" => (last.who = last.call.ret /\ last.who \in DOMAIN midis)
                /\ last.res = "Err" => last.who = Null)
    /\ [][/\ last'.op \in TrackOps => (last'.who \in DOMAIN midis /\ last'.who \notin closed)
          /\ last'.op = "drop_Midi"
                => (closed' = closed \cup {last'.who} /\ last'.who \notin DOMAIN midis')
          /\ closed' # closed => last'.op = "drop_Midi"]_vars

C11_Witness ==
    /\ last.op = "drop_Midi"
    /\ closed = {last.who}
    /\ midis = <<>>
    /\ players # {}

\* C12: the source buffer of a track opened with load stays valid and
\* unchanged until the track is closed: no live Midi has a released buffer.
C12_BufferOutlivesTrack == released \cap DOMAIN midis = {}

Queries == {"copyright", "current_sample", "total_samples", "total_time"}

\* C13: copyright, current_sample, total_samples and total_time change
\* nothing but the record of the latest call, and on an open track each
\* returns the engine's value at the time of the call: current_sample is the
\* cursor as the plays and seeks so far have left it.
C13_QueriesReadOnlyAndLive ==
    [][last'.op \in Queries
          => /\ UNCHANGED <<players, nextPlayer, initialized, handles, midis, nextMidi,
                            nInitOk, nShutdown, closed, released>>
             /\ last'.call.fn = "WildMidi_GetInfo"
             /\ (last'.sound /\ last'.op = "current_sample")
                   => last'.out = handles[last'.who].cur
             /\ (last'.sound /\ last'.op = "total_samples")
                   => last'.out = handles[last'.who].total
             /\ (last'.sound /\ last'.op = "total_time")
                   => last'.out \in GetInfoTotalTime(last'.who)
             /\ last'.op = "copyright"
                   => (last'.res = "Some") <=> (last'.call.ret = 1)]_vars

C13_Witness ==
    /\ last.op = "current_sample"
    /\ last.sound
    /\ last.out > 0
    /\ last.out = handles[last.who].cur

\* C14: with_cfg with a rate in [MinRate, MaxRate] and an existing
\* configuration succeeds (unless a Player is already live), the Player's
\* volume(v) returns Ok for every v in 0..MaxVolume, and volume returns an
\* error exactly when the engine's master-volume call reports nonzero status.
C14_ValidConfigAcceptsVolume ==
    /\ (last.op = "with_cfg" /\ RateInRange(last.num) /\ last.path \in last.files
          /\ last.res = "Err") => players # {}
    /\ (last.op = "volume" /\ last.num <= MaxVolume) => last.res = "Ok"
    /\ last.op = "volume" => ((last.res = "Err") <=> (last.call.ret # 0))

ExpectedCfg(files) ==
    IF "/etc/wildmidi/wildmidi.cfg" \in files THEN "/etc/wildmidi/wildmidi.cfg"
    ELSE IF "/etc/wildmidi.cfg" \in files THEN "/etc/wildmidi.cfg"
    ELSE None

\* C15: new uses /etc/wildmidi/wildmidi.cfg if it exists, else
\* /etc/wildmidi.cfg if it exists; with neither it fails for every rate
\* without an engine call, and otherwise it does exactly what with_cfg does
\* on the chosen path.  A step's arguments are those its record names.
C15_NewResolvesConfigInOrder ==
    [][LET files == last'.files
           rate == last'.num
           ret == last'.call.ret
       IN (last'.op \in {"new", "with_cfg"} /\ new(files, rate, ret))
             => IF ExpectedCfg(files) = None
                THEN /\ last'.op = "new"
                     /\ last'.res = "Err"
                     /\ last'.call.fn = "none"
                     /\ UNCHANGED <<players, nextPlayer, initialized, handles, midis,
                                    nextMidi, nInitOk, nShutdown, closed, released>>
                ELSE with_cfg(files, ExpectedCfg(files), rate, ret)]_vars

C15_Witness ==
    /\ last.op = "with_cfg"
    /\ last.files = CfgFiles
    /\ last.path = "/etc/wildmidi/wildmidi.cfg"
    /\ last.res = "Ok"

\* C16: on an open track the bytes returned by play are exactly the bytes
\* the engine reported as written by WildMidi_GetOutput: its return value
\* when that is a count, none when it is a failure status.
C16_PlayLenIsEngineCount ==
    (last.op = "play" /\ last.sound)
       => last.out = (IF last.call.ret < 0 THEN 0 ELSE last.call.ret)

\* C17: the example player's drain loop terminates for every track, whatever
\* WildMidi_GetOutput returns along the way: main eventually returns, exits
\* or panics.
C17_DrainLoopTerminates == <>(pc \in Terminated)
====
